---- MODULE Spec2Model ----
(***************************************************************************)
(* Model of the scraping orchestrator of UAEscraper (src/main.py): the     *)
(* Selenium driver pool, the thread and event-loop runners, the pipeline   *)
(* steps 2, 3, 4, 5 and 7 of main(), and the pacing of the calls to the    *)
(* external search service (Spec); the way from the text of a page to the  *)
(* index store (HarvestSpec); the context that step 6 compiles from the    *)
(* index stores for the language model (AnalysisSpec); the snapshots of    *)
(* the index stores on disk as the step functions and the analysis load    *)
(* and save them (StoreSpec); the two stages of                            *)
(* WebsiteScraper.scrape_website (CrawlSpec); and the runs of the pooled   *)
(* LinkedIn and news steps under fair scheduling (PoolSpec).               *)
(***************************************************************************)
EXTENDS Integers, Sequences, FiniteSets, TLC

\* ------------------------------------------------------------------ bounds
MaxCompanies == 2      \* rows of the roster (enriched CSV)
MaxDocs == 1           \* documents one harvester call returns at most
MaxQueries == 1        \* queries generate_queries yields per company at most
MaxResults == 1        \* results one search call returns at most
MaxPages == 2          \* page or post texts one harvester call reads at most
MaxStores == 2         \* index stores found on disk by the analysis at most
MaxStoreDocs == 11     \* documents of the analysed company in one store at most
MaxOverLength == 1     \* characters a document has beyond the context cut at most
MaxSnapshotDocs == 1   \* fragments a snapshot found on disk holds at most
MaxHarvested == 1      \* fragments the runner of a followed step returns at most
MaxPdfChunks == 2      \* pages with text one PDF document has at most

\* ------------------------------------------------------- program constants
SELENIUM_MAX_WORKERS == 2
NETWORK_MAX_WORKERS == 10
BRAVE_API_RATE_LIMIT == 1
SEARCH_K == 10               \* k of similarity_search
MAX_CHARS_PER_DOC == 4000
NO_OF_WEBSITE_PAGES_TO_SCRAPE == 5
STAGE2_BELOW == 5            \* Stage 2 runs if Stage 1 found fewer documents

\* ----------------------------------------------------------------- helpers
Min(a, b) == IF a < b THEN a ELSE b

Range(s) == {s[i] : i \in 1..Len(s)}

SeqsUpTo(S, n) == UNION {[1..k -> S] : k \in 0..n}

RECURSIVE Count(_, _)
Count(s, x) ==
    IF s = <<>> THEN 0
    ELSE (IF Head(s) = x THEN 1 ELSE 0) + Count(Tail(s), x)

RECURSIVE Concat(_)
Concat(ss) == IF ss = <<>> THEN <<>> ELSE Head(ss) \o Concat(Tail(ss))

\* ------------------------------------------------------------ value spaces
NoDriver == -1
DeepDriver == 0                       \* the session DeepSearchScraper() opens
PoolIds == 1..SELENIUM_MAX_WORKERS    \* the i-th LinkedInScraper() of the pool
WorkerIds == 1..NETWORK_MAX_WORKERS   \* threads of a ThreadPoolExecutor
MainThread == 0
Threads == {MainThread} \cup WorkerIds

URLs == {"u1", "u2"}

StepOrder == <<2, 3, 4, 5, 7>>        \* the order of the steps in main()
NoStep == Len(StepOrder) + 1

\* command lines: one scraping flag, or --all-scrape
ArgSets == {{2}, {3}, {4}, {5}, {7}, {2, 3, 4, 5, 7}}

Rows == [li : BOOLEAN, web : BOOLEAN]  \* linkedin_url / website_url present
Rosters == SeqsUpTo(Rows, MaxCompanies)

\* the i-th Document a harvester call returns for company c
Doc(c, i) == [company |-> c, item |-> i]
DocLists(c) == {[i \in 1..n |-> Doc(c, i)] : n \in 0..MaxDocs}

Raised == [ok |-> FALSE, docs |-> <<>>]
Returned(ds) == [ok |-> TRUE, docs |-> ds]

VARIABLES
    args,          \* steps selected on the command line
    roster,        \* the rows of the enriched CSV
    apiKey,        \* config.BRAVE_API_KEY is set
    cookiesFile,   \* the file config.COOKIES_FILE exists
    mpc,           \* position of the main thread
    stepIdx,       \* index in StepOrder of the step being run
    excMain,       \* an exception is propagating out of main's try block
    poolIter,      \* create_driver_pool: iterations of the loop left
    pending,       \* create_driver_pool: the session being logged in
    localPool,     \* create_driver_pool: its local queue
    poolRef,       \* main's driver_pool is not None
    driver_pool,   \* the queue.Queue main holds
    created,       \* drivers create_driver_pool has put in the pool
    live,          \* browser sessions launched and not quit
    quitCount,     \* times quit() was called on each session
    tasks,         \* task list of the running step
    futures,       \* one future per task
    nthreads,      \* threads of the executor
    usesPool,      \* the worker function borrows a driver
    wpc, wtask, wdrv,   \* worker threads: position, task, borrowed driver
    all_documents, \* result list of the runner
    runRaised,     \* the runner call raised
    vector_store,  \* documents in the index store the running step holds
    s1row, s1q, s1nq, all_urls,   \* deep-search Stage 1 loop
    s1err,         \* the last Stage 1 search request failed
    returners,     \* history: the companies whose queries returned each url
    sleepRem,      \* remaining sleep of each thread
    sinceLast,     \* time since the last search call, cut at the rate limit
    hkind, pageTexts, documents, index, hpc,  \* the texts of one harvest on their way
                                              \* into the index store
    vector_stores,   \* step 6: the index stores loaded from disk
    company_name,    \* step 6: the company being analysed
    all_docs,        \* step 6: the documents the stores returned
    context,         \* step 6: the context string built for the prompt
    llmCalls,        \* step 6: calls of the language model
    analysis_result, \* step 6: what analyze returned
    apc,             \* step 6: position
    disk,            \* the snapshot of each index store on disk
    index_name,      \* the index store of the step function being followed
    step_store,      \* its local vector_store
    step_documents,  \* what its runner call returned
    before,          \* history: the disk when the run started
    steps_run,       \* the index stores whose step function has run
    loaded_stores,   \* the dict load_all_vector_stores returned
    spc,             \* position of the step function being followed
    base_url,        \* scrape_website: its argument
    visited_urls, high_value_urls_to_visit, general_urls_to_visit,
    site_documents,  \* scrape_website: its list documents
    general_docs_found,
    found_links,     \* history: the same-domain links of the pages fetched
    fetches,         \* history: the requests sent to each url
    cpc              \* position in scrape_website

poolVars == <<poolIter, pending, localPool, poolRef, driver_pool, created, live, quitCount>>
runVars == <<tasks, futures, nthreads, usesPool, wpc, wtask, wdrv, all_documents, runRaised>>
s1Vars == <<s1row, s1q, s1nq, all_urls, s1err, returners>>
timeVars == <<sleepRem, sinceLast>>
harvestVars == <<hkind, pageTexts, documents, index, hpc>>
analysisVars == <<vector_stores, company_name, all_docs, context, llmCalls, analysis_result,
                  apc>>
storeVars == <<disk, index_name, step_store, step_documents, before, steps_run, loaded_stores,
               spc>>
\* what the orchestrator's steps never change
crawlVars == <<base_url, visited_urls, high_value_urls_to_visit, general_urls_to_visit,
               site_documents, general_docs_found, found_links, fetches, cpc>>
envVars == <<args, roster, apiKey, cookiesFile, harvestVars, analysisVars, storeVars, crawlVars>>
vars == <<envVars, mpc, stepIdx, excMain, poolVars, runVars, vector_store, s1Vars, timeVars>>
scrapeVars == <<args, roster, apiKey, cookiesFile, mpc, stepIdx, excMain, poolVars, runVars,
                vector_store, s1Vars, timeVars>>

ScrapeInit ==
    /\ args \in ArgSets
    /\ roster \in Rosters
    /\ apiKey \in BOOLEAN
    /\ cookiesFile \in BOOLEAN
    \* a column or a key no selected step reads is left at one value
    \* (rows without a linkedin_url are tried with --scrape-linkedin alone)
    /\ args # {2} => \A i \in 1..Len(roster) : roster[i].li
    /\ 3 \notin args => \A i \in 1..Len(roster) : roster[i].web
    /\ args \cap {4, 7} = {} => apiKey
    /\ args \cap {2, 4, 7} = {} => cookiesFile
    /\ mpc = "start"
    /\ stepIdx = 1
    /\ excMain = FALSE
    /\ poolIter = 0
    /\ pending = NoDriver
    /\ localPool = <<>>
    /\ poolRef = FALSE
    /\ driver_pool = <<>>
    /\ created = {}
    /\ live = {}
    /\ quitCount = [d \in PoolIds \cup {DeepDriver} |-> 0]
    /\ tasks = <<>>
    /\ futures = <<>>
    /\ nthreads = 0
    /\ usesPool = FALSE
    /\ wpc = [w \in WorkerIds |-> "idle"]
    /\ wtask = [w \in WorkerIds |-> 0]
    /\ wdrv = [w \in WorkerIds |-> NoDriver]
    /\ all_documents = <<>>
    /\ runRaised = FALSE
    /\ vector_store = <<>>
    /\ s1row = 0
    /\ s1q = 0
    /\ s1nq = 0
    /\ all_urls = <<>>
    /\ s1err = FALSE
    /\ returners = [u \in URLs |-> {}]
    /\ sleepRem = [t \in Threads |-> 0]
    /\ sinceLast = BRAVE_API_RATE_LIMIT

\* ------------------------------------------------------------ main: start
\* main.py:301  selenium_steps
SeleniumSteps(a) == a \cap {2, 4, 7} # {}

\* main.py:319-321  try: if selenium_steps: driver_pool = create_driver_pool(...)
MainStart ==
    /\ mpc = "start"
    /\ IF SeleniumSteps(args)
       THEN /\ mpc' = "create_pool"
            /\ poolIter' = SELENIUM_MAX_WORKERS
       ELSE /\ mpc' = "next_step"
            /\ UNCHANGED poolIter
    /\ UNCHANGED <<envVars, vector_store, stepIdx, excMain, pending, localPool, poolRef, driver_pool,
                   created, live, quitCount, runVars, s1Vars, timeVars>>

\* ------------------------------------------------------- create_driver_pool
\* the id of the session the current iteration launches
IterId == SELENIUM_MAX_WORKERS - poolIter + 1

\* LinkedInScraper._setup_driver_with_cookies up to uc.Chrome(...):
\* the cookie file is missing (None), uc.Chrome raises, or a session is live
CreateLaunch ==
    /\ mpc = "create_pool"
    /\ poolIter > 0
    /\ \E outcome \in IF cookiesFile THEN {"raise", "launched"} ELSE {"nofile"} :
        CASE outcome = "nofile" ->
                /\ poolIter' = poolIter - 1
                /\ UNCHANGED <<mpc, excMain, pending, live>>
          [] outcome = "raise" ->
                /\ excMain' = TRUE
                /\ mpc' = "finally"
                /\ UNCHANGED <<poolIter, pending, live>>
          [] outcome = "launched" ->
                /\ live' = live \cup {IterId}
                /\ pending' = IterId
                /\ mpc' = "login"
                /\ UNCHANGED <<poolIter, excMain>>
    /\ UNCHANGED <<envVars, vector_store, stepIdx, localPool, poolRef, driver_pool, created, quitCount,
                   runVars, s1Vars, timeVars>>

\* the rest of _setup_driver_with_cookies and the put of create_driver_pool:
\* logged in (driver returned and put), login failed or timed out (quit, None),
\* or driver.get / add_cookie raises
CreateLogin ==
    /\ mpc = "login"
    /\ \E outcome \in {"ok", "failed", "raise"} :
        CASE outcome = "ok" ->
                /\ localPool' = Append(localPool, pending)
                /\ created' = created \cup {pending}
                /\ poolIter' = poolIter - 1
                /\ mpc' = "create_pool"
                /\ UNCHANGED <<excMain, live, quitCount>>
          [] outcome = "failed" ->
                /\ live' = live \ {pending}
                /\ quitCount' = [quitCount EXCEPT ![pending] = @ + 1]
                /\ poolIter' = poolIter - 1
                /\ mpc' = "create_pool"
                /\ UNCHANGED <<excMain, localPool, created>>
          [] outcome = "raise" ->
                /\ excMain' = TRUE
                /\ mpc' = "finally"
                /\ UNCHANGED <<poolIter, localPool, created, live, quitCount>>
    /\ pending' = NoDriver
    /\ UNCHANGED <<envVars, vector_store, stepIdx, poolRef, driver_pool, runVars, s1Vars, timeVars>>

\* main.py:52-53 and 321: return driver_pool, bound to main's variable
CreatePoolReturn ==
    /\ mpc = "create_pool"
    /\ poolIter = 0
    /\ driver_pool' = localPool
    /\ poolRef' = TRUE
    /\ mpc' = "next_step"
    /\ UNCHANGED <<envVars, vector_store, stepIdx, excMain, poolIter, pending, localPool, created, live,
                   quitCount, runVars, s1Vars, timeVars>>

\* ------------------------------------------------------------ step set-up
RECURSIVE SortedSeq(_)
SortedSeq(S) ==
    IF S = {} THEN <<>>
    ELSE LET m == CHOOSE x \in S : \A y \in S : x <= y
         IN <<m>> \o SortedSeq(S \ {m})

Task(c, u) == [company |-> c, url |-> u]

CurStep == IF stepIdx \in 1..Len(StepOrder) THEN StepOrder[stepIdx] ELSE 0

\* the next step of main.py:323-336 whose flag is set, from index i on
NextIdx(i) ==
    LET S == {j \in i..Len(StepOrder) : StepOrder[j] \in args}
    IN IF S = {} THEN NoStep ELSE CHOOSE j \in S : \A k \in S : j <= k

\* main.py:144, 157, 170, 183: the task list each step builds from the roster
StepTasks(k) ==
    LET idx == CASE k = 2 -> {i \in 1..Len(roster) : roster[i].li}
                 [] k = 3 -> {i \in 1..Len(roster) : roster[i].web}
                 [] OTHER -> 1..Len(roster)
        order == SortedSeq(idx)
    IN [n \in 1..Len(order) |-> Task(order[n], "")]

\* main.py:145, 171, 184, 229: max_workers passed to run_scraping_in_parallel
MaxWorkersOf(k) == IF k = 5 THEN NETWORK_MAX_WORKERS ELSE SELENIUM_MAX_WORKERS

\* the worker function of step k takes a driver from driver_pool
BorrowsDriver(k) == k \in {2, 4, 7}

ResetRun ==
    /\ tasks' = <<>>
    /\ futures' = <<>>
    /\ nthreads' = 0
    /\ all_documents' = <<>>
    /\ runRaised' = FALSE

\* utils.py:81-86: no index on disk: a new store, emptied of its "init" entry
GetVectorStore == <<>>

\* main.py:323-338: run the next selected step, or leave the try block.
\* The step starts with utils.get_vector_store and builds its task list.
StepBegin ==
    /\ mpc = "next_step"
    /\ LET j == NextIdx(stepIdx) IN
        /\ stepIdx' = j
        /\ IF j = NoStep
           THEN /\ mpc' = "finally"
                /\ UNCHANGED <<tasks, usesPool, vector_store>>
           ELSE LET k == StepOrder[j] IN
                /\ usesPool' = BorrowsDriver(k)
                /\ vector_store' = GetVectorStore
                /\ IF k = 7
                   THEN /\ mpc' = "ds_init"
                        /\ UNCHANGED tasks
                   ELSE /\ tasks' = StepTasks(k)
                        /\ mpc' = IF k = 3 THEN "gather" ELSE "submit"
    /\ UNCHANGED <<envVars, excMain, poolVars, futures, nthreads, wpc, wtask, wdrv,
                   all_documents, runRaised, s1Vars, timeVars>>

\* ------------------------------------------------- run_scraping_in_parallel
\* main.py:112-114: the executor is created and every task is submitted
RunSubmit ==
    /\ mpc = "submit"
    /\ futures' = [t \in 1..Len(tasks) |-> [st |-> "pending", res |-> Raised]]
    /\ nthreads' = Min(MaxWorkersOf(CurStep), Len(tasks))
    /\ all_documents' = <<>>
    /\ runRaised' = FALSE
    /\ mpc' = "collect"
    /\ UNCHANGED <<envVars, vector_store, stepIdx, excMain, poolVars, tasks, usesPool, wpc, wtask, wdrv,
                   s1Vars, timeVars>>

\* a work queue that also hands out the items being run
UnfinishedTasks == {t \in 1..Len(futures) : futures[t].st \in {"pending", "running"}}

\* the work items the executor has not handed to a thread yet
PendingTasks == {t \in 1..Len(futures) : futures[t].st = "pending"}

\* a thread of the executor takes the oldest work item of its queue
WTake(w) ==
    /\ mpc = "collect"
    /\ w <= nthreads
    /\ wpc[w] = "idle"
    /\ PendingTasks # {}
    /\ LET t == CHOOSE x \in PendingTasks : \A y \in PendingTasks : x <= y IN
        /\ futures' = [futures EXCEPT ![t].st = "running"]
        /\ wtask' = [wtask EXCEPT ![w] = t]
    /\ wpc' = [wpc EXCEPT ![w] = IF usesPool THEN "acquire" ELSE "harvest"]
    /\ UNCHANGED <<envVars, vector_store, mpc, stepIdx, excMain, poolVars, tasks, nthreads, usesPool,
                   wdrv, all_documents, runRaised, s1Vars, timeVars>>

\* a get that leaves the driver in the queue
PoolGetPeek(q) == [driver |-> Head(q), rest |-> q]

\* queue.Queue.get(): the driver at the head leaves the queue
PoolGet(q) == [driver |-> Head(q), rest |-> Tail(q)]

\* main.py:68, 86: driver = driver_pool.get(), blocking while the queue is empty
WAcquire(w) ==
    /\ wpc[w] = "acquire"
    /\ driver_pool # <<>>
    /\ LET g == PoolGet(driver_pool) IN
        /\ wdrv' = [wdrv EXCEPT ![w] = g.driver]
        /\ driver_pool' = g.rest
    /\ wpc' = [wpc EXCEPT ![w] = "harvest"]
    /\ UNCHANGED <<envVars, vector_store, mpc, stepIdx, excMain, poolIter, pending, localPool, poolRef,
                   created, live, quitCount, tasks, futures, nthreads, usesPool, wtask,
                   all_documents, runRaised, s1Vars, timeVars>>

\* LinkedInScraper.scrape_page: a list of documents, or the exception of the
\* unguarded self.driver.get(posts_url) (linkedin_scraper.py:110)
ScrapePageOutcomes(c) == {Raised} \cup {Returned(ds) : ds \in DocLists(c)}

\* AppScraper.scrape_apps: both store look-ups catch every exception
ScrapeAppsOutcomes(c) == {Returned(ds) : ds \in DocLists(c)}

\* NewsScraper.scrape_articles after the search call: one document per article
\* scraped, none when the search found nothing or the articles failed to load
ScrapeArticlesOutcomes(c) == {Returned(ds) : ds \in DocLists(c)}

\* DeepSearchScraper.scrape_single_url
ScrapeSingleUrlOutcomes(c) == {Returned(ds) : ds \in DocLists(c)}

\* a search request goes out now
RecordCall == sinceLast' = 0

\* news_scraper.py:44: the sleep that precedes the request
NewsSleepTime == BRAVE_API_RATE_LIMIT

\* news_scraper.py:38-44: NewsScraper._search_brave with an API key: the
\* worker sleeps before it sends the request
WNewsSleep(w) ==
    /\ wpc[w] = "harvest"
    /\ CurStep = 4
    /\ apiKey
    /\ sleepRem' = [sleepRem EXCEPT ![w] = NewsSleepTime]
    /\ wpc' = [wpc EXCEPT ![w] = "sleep"]
    /\ UNCHANGED <<envVars, vector_store, mpc, stepIdx, excMain, poolVars, tasks, futures, nthreads,
                   usesPool, wtask, wdrv, all_documents, runRaised, s1Vars, sinceLast>>

\* a request that is given up after a fixed time
RequestEndsWithTimeout == {TRUE}

\* news_scraper.py:50: requests.get(...) is called without timeout: the call
\* ends (with a response or an error), or it waits for ever for an endpoint
\* that never responds
RequestEnds == BOOLEAN

\* news_scraper.py:46-55: the request goes out once the sleep is over; the
\* articles of its results are then scraped with the borrowed driver
WNewsSearch(w) ==
    /\ wpc[w] = "sleep"
    /\ sleepRem[w] = 0
    /\ RecordCall
    /\ \E ends \in RequestEnds :
        wpc' = [wpc EXCEPT ![w] = IF ends THEN "scrape" ELSE "waiting"]
    /\ UNCHANGED <<envVars, vector_store, mpc, stepIdx, excMain, poolVars, tasks, futures, nthreads,
                   usesPool, wtask, wdrv, all_documents, runRaised, s1Vars, sleepRem>>

\* what the harvester call of step k can end with for company c
HarvestOutcomes(k, c) ==
    CASE k = 2 -> ScrapePageOutcomes(c)
      [] k = 4 -> IF apiKey THEN ScrapeArticlesOutcomes(c) ELSE {Returned(<<>>)}
      [] k = 5 -> ScrapeAppsOutcomes(c)
      [] OTHER -> ScrapeSingleUrlOutcomes(c)

\* the put of a worker without finally: skipped when the harvester raised
ReleaseOnSuccessOnly(q, d, res) == IF res.ok THEN Append(q, d) ELSE q

\* a worker that puts its driver back twice
ReleaseTwice(q, d, res) == Append(Append(q, d), d)

\* main.py:73-74, 91-92: finally: driver_pool.put(driver)
ReleaseOnExit(q, d, res) == Append(q, d)

\* a worker that adds its documents to the index store itself
WorkerWritesStore(vs, res) == vs \o res.docs

\* main.py:65-98: the worker functions hand their documents back and never
\* touch vector_store, a local variable of the step function
WorkerStoreEffect(vs, res) == vs

\* main.py:69-74, 87-92, 96-98: the harvester call ends, the worker function
\* leaves (through its finally clause when it borrowed a driver) and the
\* future gets the result or the exception
WFinish(w) ==
    /\ \/ wpc[w] = "scrape"
       \/ wpc[w] = "harvest" /\ ~(CurStep = 4 /\ apiKey)
    /\ \E o \in HarvestOutcomes(CurStep, tasks[wtask[w]].company) :
        /\ futures' = [futures EXCEPT ![wtask[w]] = [st |-> "done", res |-> o]]
        /\ vector_store' = WorkerStoreEffect(vector_store, o)
        /\ IF wdrv[w] # NoDriver
           THEN driver_pool' = ReleaseOnExit(driver_pool, wdrv[w], o)
           ELSE UNCHANGED driver_pool
    /\ wdrv' = [wdrv EXCEPT ![w] = NoDriver]
    /\ wpc' = [wpc EXCEPT ![w] = "idle"]
    /\ UNCHANGED <<envVars, mpc, stepIdx, excMain, poolIter, pending, localPool, poolRef,
                   created, live, quitCount, tasks, nthreads, usesPool, wtask,
                   all_documents, runRaised, s1Vars, timeVars>>

\* a collecting loop without the try/except around future.result()
CollectResultUncaught(all, res) ==
    [docs |-> IF res.ok /\ res.docs # <<>> THEN all \o res.docs ELSE all,
     raised |-> ~res.ok]

\* main.py:116-124: result = future.result(); a non-empty list extends
\* all_documents; an Exception of the task is caught and printed
CollectResult(all, res) ==
    [docs |-> IF res.ok /\ res.docs # <<>> THEN all \o res.docs ELSE all,
     raised |-> FALSE]

\* main.py:115: as_completed yields a finished future
Collect ==
    /\ mpc = "collect"
    /\ ~runRaised
    /\ \E t \in 1..Len(futures) :
        /\ futures[t].st = "done"
        /\ LET out == CollectResult(all_documents, futures[t].res) IN
            /\ all_documents' = out.docs
            /\ runRaised' = out.raised
        /\ futures' = [futures EXCEPT ![t].st = "collected"]
    /\ UNCHANGED <<envVars, vector_store, mpc, stepIdx, excMain, poolVars, tasks, nthreads, usesPool,
                   wpc, wtask, wdrv, s1Vars, timeVars>>

AllCollected == \A t \in 1..Len(futures) : futures[t].st = "collected"

\* ThreadPoolExecutor.__exit__: shutdown(wait=True) joins the threads, which
\* run every submitted work item first
ExecutorJoined ==
    /\ \A t \in 1..Len(futures) : futures[t].st \in {"done", "collected"}
    /\ \A w \in WorkerIds : wpc[w] = "idle"

\* main.py:113, 125: the with block is left and all_documents is returned
RunReturn ==
    /\ mpc = "collect"
    /\ runRaised \/ AllCollected
    /\ ExecutorJoined
    /\ mpc' = "store"
    /\ UNCHANGED <<envVars, vector_store, stepIdx, excMain, poolVars, runVars, s1Vars, timeVars>>

\* --------------------------------------------- run_async_scraping_in_parallel
\* WebsiteScraper.scrape_website is a plain function that returns a list
ScrapeWebsiteReturns(c) == DocLists(c)

\* main.py:80: await applied to the list scrape_website returned (TypeError)
AwaitValue(ds) == Raised

\* main.py:76-81 scrape_website_for_company_async
AsyncWorkerOutcomes(c) == {AwaitValue(ds) : ds \in ScrapeWebsiteReturns(c)}

\* main.py:130-137: gather without return_exceptions re-raises the first
\* exception; otherwise the results are joined in task order
GatherResult(outs) ==
    IF \E t \in 1..Len(outs) : ~outs[t].ok
    THEN [docs |-> <<>>, raised |-> TRUE]
    ELSE [docs |-> Concat([t \in 1..Len(outs) |-> outs[t].docs]), raised |-> FALSE]

\* main.py:158: asyncio.run(run_async_scraping_in_parallel(...))
AsyncGather ==
    /\ mpc = "gather"
    /\ \E outs \in [1..Len(tasks) -> UNION {AsyncWorkerOutcomes(c) : c \in 1..MaxCompanies}] :
        /\ \A t \in 1..Len(tasks) : outs[t] \in AsyncWorkerOutcomes(tasks[t].company)
        /\ futures' = [t \in 1..Len(tasks) |-> [st |-> "collected", res |-> outs[t]]]
        /\ all_documents' = GatherResult(outs).docs
        /\ runRaised' = GatherResult(outs).raised
    /\ mpc' = "store"
    /\ UNCHANGED <<envVars, vector_store, stepIdx, excMain, poolVars, tasks, nthreads, usesPool, wpc,
                   wtask, wdrv, s1Vars, timeVars>>

\* a store that keeps only what was added last
ReplaceDocuments(vs, docs) == docs

\* FAISS.add_documents: the documents are appended to the store
AddDocuments(vs, docs) == vs \o docs

\* main.py:147-149 and alike: the rest of the step after the runner call:
\* a non-empty result is added to the store, which is then saved. An
\* exception of the runner leaves the step and the try block of main.
StepStore ==
    /\ mpc = "store"
    /\ IF runRaised
       THEN /\ excMain' = TRUE
            /\ mpc' = "finally"
            /\ ResetRun
            /\ vector_store' = <<>>
       ELSE /\ vector_store' = IF all_documents # <<>>
                               THEN AddDocuments(vector_store, all_documents)
                               ELSE vector_store
            /\ mpc' = "step_end"
            /\ UNCHANGED <<excMain, tasks, futures, nthreads, all_documents, runRaised>>
    /\ UNCHANGED <<envVars, stepIdx, poolVars, usesPool, wpc, wtask, wdrv, s1Vars, timeVars>>

\* main.py:150, 235: the step function returns and its locals are gone
StepEnd ==
    /\ mpc = "step_end"
    /\ stepIdx' = stepIdx + 1
    /\ mpc' = "next_step"
    /\ ResetRun
    /\ vector_store' = <<>>
    /\ all_urls' = <<>>
    /\ s1err' = FALSE
    /\ returners' = [u \in URLs |-> {}]
    /\ UNCHANGED <<envVars, excMain, poolVars, usesPool, wpc, wtask, wdrv, s1row, s1q, s1nq,
                   timeVars>>

\* ------------------------------------------------- step_7_scrape_deep_web
\* main.py:198 and deep_search_scraper.py:21-33: DeepSearchScraper() opens a
\* browser session of its own (uc.Chrome), or uc.Chrome raises
DeepInit ==
    /\ mpc = "ds_init"
    /\ \E launched \in BOOLEAN :
        IF launched
        THEN /\ live' = live \cup {DeepDriver}
             /\ mpc' = "stage1"
             /\ UNCHANGED excMain
        ELSE /\ excMain' = TRUE
             /\ mpc' = "finally"
             /\ UNCHANGED live
    /\ s1row' = 0
    /\ s1q' = 0
    /\ s1nq' = 0
    /\ all_urls' = <<>>
    /\ s1err' = FALSE
    /\ returners' = [u \in URLs |-> {}]
    /\ UNCHANGED <<envVars, vector_store, stepIdx, poolIter, pending, localPool, poolRef, driver_pool,
                   created, quitCount, runVars, timeVars>>

\* main.py:204-207: the next row of the roster; generate_queries yields its queries
Stage1Row ==
    /\ mpc = "stage1"
    /\ s1q = s1nq
    /\ s1row < Len(roster)
    /\ s1row' = s1row + 1
    /\ s1q' = 0
    /\ s1nq' \in 0..MaxQueries
    /\ s1err' = FALSE
    /\ UNCHANGED <<envVars, vector_store, mpc, stepIdx, excMain, poolVars, runVars, all_urls, returners,
                   timeVars>>

\* a sleep placed between the queries of one company only
Stage1SleepBetweenQueriesOnly(q) == IF q > 1 THEN BRAVE_API_RATE_LIMIT ELSE 0

\* main.py:210: time.sleep(config.BRAVE_API_RATE_LIMIT) before query q of a company
Stage1SleepTime(q) == BRAVE_API_RATE_LIMIT

Stage1Sleep ==
    /\ mpc = "stage1"
    /\ s1q < s1nq
    /\ s1q' = s1q + 1
    /\ sleepRem' = [sleepRem EXCEPT ![MainThread] = Stage1SleepTime(s1q + 1)]
    /\ mpc' = "s1_sleep"
    /\ s1err' = FALSE
    /\ UNCHANGED <<envVars, vector_store, stepIdx, excMain, poolVars, runVars, s1row, s1nq, all_urls,
                   returners, sinceLast>>

ResultUrls == URLs \cup {""}          \* "" stands for a result without a url
SearchResults == SeqsUpTo(ResultUrls, MaxResults)

ScheduledUrls(us) == {us[i].url : i \in 1..Len(us)}

\* a work list that drops a url only when the same company already has it
RECURSIVE AddResultsPerCompany(_, _, _)
AddResultsPerCompany(us, results, c) ==
    IF results = <<>> THEN us
    ELSE LET url == Head(results)
             mine == {us[i].url : i \in {j \in 1..Len(us) : us[j].company = c}}
             us1 == IF url # "" /\ url \notin mine
                    THEN Append(us, Task(c, url))
                    ELSE us
         IN AddResultsPerCompany(us1, Tail(results), c)

\* a work list that is started afresh for every query
AddResultsFresh(us, results, c) == AddResultsPerCompany(<<>>, results, c)

\* main.py:213-222: each result whose url is new is appended with the company
RECURSIVE AddResults(_, _, _)
AddResults(us, results, c) ==
    IF results = <<>> THEN us
    ELSE LET url == Head(results)
             us1 == IF url # "" /\ url \notin ScheduledUrls(us)
                    THEN Append(us, Task(c, url))
                    ELSE us
         IN AddResults(us1, Tail(results), c)

\* deep_search_scraper.py:65-71: a request that fails is caught and the
\* search returns the empty list
SearchBrave(failed, results) == IF failed THEN <<>> ELSE results

\* main.py:211-222: scraper.search_brave(query_info) and the loop over its
\* results. Without an API key no request is sent and the result is empty.
Stage1Query(failed) ==
    /\ mpc = "s1_sleep"
    /\ sleepRem[MainThread] = 0
    /\ IF apiKey
       THEN /\ RecordCall
            /\ \E results \in SearchResults :
                LET got == SearchBrave(failed, results) IN
                /\ all_urls' = AddResults(all_urls, got, s1row)
                /\ returners' = [u \in URLs |->
                                   IF u \in Range(got) THEN returners[u] \cup {s1row}
                                   ELSE returners[u]]
            /\ s1err' = failed
       ELSE /\ ~failed
            /\ UNCHANGED <<sinceLast, all_urls, s1err, returners>>
    /\ mpc' = "stage1"
    /\ UNCHANGED <<envVars, vector_store, stepIdx, excMain, poolVars, runVars, s1row, s1q, s1nq, sleepRem>>

Stage1Search == \E failed \in BOOLEAN : Stage1Query(failed)

\* a hand-over that does not wait for the remaining rows
Stage1FinishedAnyRow == TRUE

\* main.py:204: the loop over df.iterrows() has run for every row
Stage1Finished == s1row = Len(roster)

\* main.py:224-229: Stage 1 is over: return when nothing was found, else hand
\* the work list to run_scraping_in_parallel
Stage1End ==
    /\ mpc = "stage1"
    /\ s1q = s1nq
    /\ Stage1Finished
    /\ IF all_urls = <<>>
       THEN /\ stepIdx' = stepIdx + 1
            /\ mpc' = "next_step"
            /\ UNCHANGED tasks
       ELSE /\ tasks' = all_urls
            /\ mpc' = "submit"
            /\ UNCHANGED stepIdx
    \* what is known of the searches is of no use once Stage 1 is over
    /\ s1err' = FALSE
    /\ returners' = [u \in URLs |-> {}]
    /\ UNCHANGED <<envVars, vector_store, excMain, poolVars, futures, nthreads, usesPool, wpc,
                   wtask, wdrv, all_documents, runRaised, s1row, s1q, s1nq, all_urls,
                   timeVars>>

\* ------------------------------------------------------ finally / shutdown
\* main.py:340-342: finally: if driver_pool: shutdown_driver_pool(driver_pool)
Finally ==
    /\ mpc = "finally"
    /\ mpc' = IF poolRef THEN "shutdown" ELSE IF excMain THEN "crashed" ELSE "done"
    /\ UNCHANGED <<envVars, vector_store, stepIdx, excMain, poolVars, runVars, s1Vars, timeVars>>

\* a loop that stops one driver early
ShutdownLoopStopsEarly(q) == Len(q) > 1

\* main.py:58: while not driver_pool.empty()
ShutdownLoopContinues(q) == q # <<>>

\* main.py:59-60: driver = driver_pool.get(); driver.quit()
ShutdownQuit ==
    /\ mpc = "shutdown"
    /\ ShutdownLoopContinues(driver_pool)
    /\ LET d == Head(driver_pool) IN
        /\ driver_pool' = Tail(driver_pool)
        /\ live' = live \ {d}
        /\ quitCount' = [quitCount EXCEPT ![d] = @ + 1]
    /\ UNCHANGED <<envVars, vector_store, mpc, stepIdx, excMain, poolIter, pending, localPool, poolRef,
                   created, runVars, s1Vars, timeVars>>

\* main.py:61: the pool is drained; main goes on, or the exception propagates
ShutdownDone ==
    /\ mpc = "shutdown"
    /\ ~ShutdownLoopContinues(driver_pool)
    /\ mpc' = IF excMain THEN "crashed" ELSE "done"
    /\ UNCHANGED <<envVars, vector_store, stepIdx, excMain, poolVars, runVars, s1Vars, timeVars>>

\* -------------------------------------------------------------------- time
\* one unit of time passes: sleeps get shorter, the last call gets older
Tick ==
    /\ \/ \E t \in Threads : sleepRem[t] > 0
       \/ sinceLast < BRAVE_API_RATE_LIMIT
    /\ sleepRem' = [t \in Threads |-> IF sleepRem[t] > 0 THEN sleepRem[t] - 1 ELSE 0]
    /\ sinceLast' = Min(BRAVE_API_RATE_LIMIT, sinceLast + 1)
    /\ UNCHANGED <<envVars, vector_store, mpc, stepIdx, excMain, poolVars, runVars, s1Vars>>

\* no harvest is being followed
HarvestAtRest ==
    /\ hkind = "linkedin"
    /\ pageTexts = <<>>
    /\ documents = <<>>
    /\ index = <<>>
    /\ hpc = "done"

\* no analysis is being followed
AnalysisAtRest ==
    /\ vector_stores = <<>>
    /\ company_name = "A"
    /\ all_docs = <<>>
    /\ context = <<>>
    /\ llmCalls = 0
    /\ analysis_result = "none"
    /\ apc = "done"

\* no step function's store is being followed
StoreAtRest ==
    /\ disk = <<>>
    /\ index_name = "linkedin"
    /\ step_store = <<>>
    /\ step_documents = <<>>
    /\ before = <<>>
    /\ steps_run = {}
    /\ loaded_stores = <<>>
    /\ spc = "done"

\* no call of scrape_website is being followed
CrawlAtRest ==
    /\ base_url = [netloc |-> "", path |-> ""]
    /\ visited_urls = {}
    /\ high_value_urls_to_visit = {}
    /\ general_urls_to_visit = {}
    /\ site_documents = <<>>
    /\ general_docs_found = 0
    /\ found_links = {}
    /\ fetches = <<>>
    /\ cpc = "done"

Init == ScrapeInit /\ HarvestAtRest /\ AnalysisAtRest /\ StoreAtRest /\ CrawlAtRest

Next ==
    \/ MainStart
    \/ CreateLaunch
    \/ CreateLogin
    \/ CreatePoolReturn
    \/ StepBegin
    \/ RunSubmit
    \/ \E w \in WorkerIds : WTake(w)
    \/ \E w \in WorkerIds : WAcquire(w)
    \/ \E w \in WorkerIds : WNewsSleep(w)
    \/ \E w \in WorkerIds : WNewsSearch(w)
    \/ \E w \in WorkerIds : WFinish(w)
    \/ Collect
    \/ RunReturn
    \/ AsyncGather
    \/ StepStore
    \/ StepEnd
    \/ DeepInit
    \/ Stage1Row
    \/ Stage1Sleep
    \/ Stage1Search
    \/ Stage1End
    \/ Finally
    \/ ShutdownQuit
    \/ ShutdownDone
    \/ Tick

Spec == Init /\ [][Next]_vars

\* ------------------------------------------------------------------ claims
Outstanding == {w \in WorkerIds : wdrv[w] # NoDriver}
Holders(d) == {w \in WorkerIds : wdrv[w] = d}
PoolInUse == poolRef /\ mpc \notin {"shutdown", "done", "crashed"}
AllDocs == {Doc(c, i) : c \in 1..MaxCompanies, i \in 1..MaxDocs}

\* the documents the tasks that did not raise returned, one list
SuccessfulDocs == Concat([t \in 1..Len(futures) |->
                            IF futures[t].res.ok THEN futures[t].res.docs ELSE <<>>])

\* C1: the number of drivers taken from the pool and not yet put back never
\* exceeds the pool size passed to create_driver_pool, nor the number of
\* drivers actually created.
C1_PoolBound ==
    /\ Cardinality(Outstanding) <= SELENIUM_MAX_WORKERS
    /\ Cardinality(Outstanding) <= Cardinality(created)

\* a worker waits in get() while the only created driver is borrowed
C1_Witness ==
    /\ Cardinality(created) = 1
    /\ Outstanding # {}
    /\ \E w \in WorkerIds : wpc[w] = "acquire"

\* C2: while the steps use the pool, each created driver is either once in
\* the queue or held by exactly one worker, and nothing else is in the queue
\* or held.
C2_ExclusiveOwnership ==
    PoolInUse =>
        /\ \A d \in created : Count(driver_pool, d) + Cardinality(Holders(d)) = 1
        /\ Range(driver_pool) \subseteq created
        /\ \A w \in Outstanding : wdrv[w] \in created

\* the only driver was borrowed, put back and is borrowed again
C2_Witness ==
    /\ PoolInUse
    /\ Cardinality(created) = 1
    /\ Cardinality(Outstanding) = 1
    /\ \E t \in 1..Len(futures) : futures[t].st \in {"done", "collected"}

\* C3: when run_scraping_in_parallel has returned from a run of pooled
\* workers, no driver is outstanding and the pool holds every created driver,
\* also when a harvester call raised.
C3_ReleaseOnFailure ==
    (mpc = "store" /\ usesPool) =>
        /\ Outstanding = {}
        /\ Range(driver_pool) = created
        /\ Len(driver_pool) = Cardinality(created)

\* the run of the LinkedIn workers has returned and a scrape_page call raised
C3_Witness ==
    /\ mpc = "store"
    /\ CurStep = 2
    /\ created # {}
    /\ \E t \in 1..Len(futures) : ~futures[t].res.ok

\* C4 (as claimed): when create_driver_pool created no driver, no worker
\* waits for a driver: the run stops before harvesting starts.
C4_NoBlockOnEmptyPool ==
    (poolRef /\ created = {}) => \A w \in WorkerIds : wpc[w] # "acquire"

\* C5: while shutdown_driver_pool runs every worker has finished and every
\* created driver is in the pool or already quit; afterwards every created
\* driver has been quit exactly once.
C5_ShutdownAfterWorkers ==
    /\ mpc = "shutdown" =>
        /\ \A w \in WorkerIds : wpc[w] = "idle" /\ wdrv[w] = NoDriver
        /\ \A d \in created : Count(driver_pool, d) + quitCount[d] = 1
    /\ (poolRef /\ mpc \in {"done", "crashed"}) =>
        \A d \in created : quitCount[d] = 1 /\ d \notin live

\* shutdown has run after a step raised and has quit both drivers
C5_Witness ==
    /\ mpc = "crashed"
    /\ poolRef
    /\ stepIdx > 1
    /\ Cardinality(created) = 2
    /\ \A d \in created : quitCount[d] = 1

\* C6 (as claimed): every live browser session was made by
\* create_driver_pool, at most SELENIUM_MAX_WORKERS are live, and none is live
\* when the run has completed.
C6_OnlyPooledSessions ==
    /\ live \subseteq PoolIds
    /\ Cardinality(live) <= SELENIUM_MAX_WORKERS
    /\ mpc = "done" => live = {}

\* C7: run_scraping_in_parallel does not raise and returns exactly the
\* documents of the tasks that did not raise, as a multiset; every task has
\* been run.
C7_ThreadRunnerResults ==
    (mpc = "store" /\ CurStep # 3) =>
        /\ ~runRaised
        /\ AllCollected
        /\ \A d \in AllDocs : Count(all_documents, d) = Count(SuccessfulDocs, d)

\* one task raised and another one returned a document
C7_Witness ==
    /\ mpc = "store"
    /\ CurStep = 2
    /\ \E t \in 1..Len(futures) : ~futures[t].res.ok
    /\ all_documents # <<>>

\* C8 (as claimed): run_async_scraping_in_parallel does not raise either and
\* returns the documents of the items that did not fail.
C8_AsyncSameContract ==
    (mpc = "store" /\ CurStep = 3) =>
        /\ ~runRaised
        /\ \A d \in AllDocs : Count(all_documents, d) = Count(SuccessfulDocs, d)

\* a step in which deep-search Stage 1 sends a search request
Stage1Call == Stage1Search /\ apiKey

\* a step in which a news worker sends a search request
NewsCall == \E w \in WorkerIds : WNewsSearch(w)

C10_ProcessWideSpacing ==
    [][(Stage1Call \/ NewsCall) => sinceLast >= BRAVE_API_RATE_LIMIT]_vars
\* ---------------------------------------------------- Stage 1 work list
Stage1Running == mpc \in {"stage1", "s1_sleep"}

\* the work items of url u
ItemsOf(u) == {i \in 1..Len(all_urls) : all_urls[i].url = u}

\* the first company, in roster order, whose query returned u
FirstReturner(u) == CHOOSE c \in returners[u] : \A d \in returners[u] : c <= d

\* C11: the work list Stage 1 builds holds exactly one item for each url that
\* some query of some company returned, tagged with the first company in
\* roster order whose query returned it, and no other item.
C11_OneItemPerUrl ==
    Stage1Running =>
        /\ \A i \in 1..Len(all_urls) : all_urls[i].url \in URLs
        /\ \A u \in URLs :
            IF returners[u] = {}
            THEN ItemsOf(u) = {}
            ELSE /\ Cardinality(ItemsOf(u)) = 1
                 /\ \A i \in ItemsOf(u) : all_urls[i].company = FirstReturner(u)

\* Stage 1 is over for two companies whose queries returned the same url
C11_Witness ==
    /\ mpc = "stage1"
    /\ s1row = Len(roster)
    /\ s1q = s1nq
    /\ \E u \in URLs :
        /\ returners[u] = {1, 2}
        /\ Cardinality(ItemsOf(u)) = 1

\* a Stage 2 fetch of step 7 has been submitted or is running
Stage2Started == CurStep = 7 /\ (futures # <<>> \/ \E w \in WorkerIds : wpc[w] # "idle")

\* C12: while Stage 1 runs, the main thread is the only thread, so discovery
\* queries are issued one at a time; and no Stage 2 fetch is submitted or
\* running until Stage 1 has processed every query of every company.
C12_Stage1BeforeStage2 ==
    /\ Stage1Running =>
        /\ nthreads = 0
        /\ futures = <<>>
        /\ \A w \in WorkerIds : wpc[w] = "idle"
    /\ Stage2Started => (s1row = Len(roster) /\ s1q = s1nq)

\* a Stage 2 worker is fetching, with work items of two companies
C12_Witness ==
    /\ CurStep = 7
    /\ \E w \in WorkerIds : wpc[w] # "idle"
    /\ \E i, j \in 1..Len(tasks) : tasks[i].company = 1 /\ tasks[j].company = 2

HarvesterStep == CurStep \in {2, 4, 5}

\* C14: every harvester call (scrape_page, scrape_articles, scrape_apps) ends
\* by returning a list; none ends with an exception.
C14_HarvestersFailSoft ==
    HarvesterStep =>
        \A t \in 1..Len(futures) :
            futures[t].st \in {"done", "collected"} => futures[t].res.ok

\* ------------------------------------------------------------ index store
\* a step that adds documents to the index store
StoreGrows == Len(vector_store') > Len(vector_store)

\* C20: the index store is written only by the main thread at the end of the
\* step, when every worker of the step has finished: the writing step is a
\* step of the main thread, no future is pending or running, every worker
\* thread is idle, and no worker moves in the step that writes.
C20_StoreWrittenAfterWorkers ==
    [][StoreGrows =>
        /\ mpc = "store"
        /\ mpc' = "step_end"
        /\ \A t \in 1..Len(futures) : futures[t].st \in {"done", "collected"}
        /\ \A w \in WorkerIds : wpc[w] = "idle" /\ wdrv[w] = NoDriver
        /\ UNCHANGED <<wpc, wtask, wdrv, futures>>]_vars

\* the documents of two workers' tasks have been written to the store
C20_Witness ==
    /\ mpc = "step_end"
    /\ Len(futures) = 2
    /\ \E i, j \in 1..Len(vector_store) :
        vector_store[i].company = 1 /\ vector_store[j].company = 2

\* ------------------------------------------ from page texts to the store
\* the scraping orchestrator before its first step, with nothing to do
ScrapeAtRest ==
    /\ ScrapeInit
    /\ args = {2}
    /\ roster = <<>>
    /\ apiKey
    /\ cookiesFile

\* what the browser or the HTTP response gives as the text of a page or of
\* a post: nothing, white space only, or words
Texts == {"", " ", "text"}

\* str.strip()
Strip(t) == IF t = " " THEN "" ELSE t

\* website_scraper.py:41-48 _get_clean_text: lines and phrases are stripped
\* and the empty ones left out
CleanText(t) == Strip(t)

Kinds == {"linkedin", "news", "website"}

Document(kind, t) == [type |-> kind, page_content |-> t]

\* the documents in an index loaded from disk (utils.py:74-80), or none
LoadedIndexes == {<<>>, <<Document("linkedin", "text")>>}

\* linkedin_scraper.py:97-101, 132-136 and news_scraper.py:78-82: the text of
\* the body or of the post becomes a Document as it is;
\* website_scraper.py:177-180, 208-211: the cleaned text becomes a Document
\* if it is not empty
PageDocuments(kind, texts) ==
    IF kind = "website"
    THEN LET cleaned == [i \in 1..Len(texts) |-> CleanText(texts[i])]
             NonEmpty(t) == t # ""
             kept == SelectSeq(cleaned, NonEmpty)
         IN [i \in 1..Len(kept) |-> Document(kind, kept[i])]
    ELSE [i \in 1..Len(texts) |-> Document(kind, texts[i])]

HarvestInit ==
    /\ ScrapeAtRest
    /\ AnalysisAtRest
    /\ StoreAtRest
    /\ CrawlAtRest
    /\ hkind \in Kinds
    /\ pageTexts \in SeqsUpTo(Texts, MaxPages)
    /\ documents = <<>>
    /\ index \in LoadedIndexes
    /\ hpc = "scrape"

\* scrape_page, scrape_articles, scrape_website: the harvester reads the
\* pages and returns its documents
HarvestPages ==
    /\ hpc = "scrape"
    /\ documents' = PageDocuments(hkind, pageTexts)
    /\ hpc' = "store"
    /\ UNCHANGED <<scrapeVars, analysisVars, storeVars, crawlVars, hkind, pageTexts, index>>

\* main.py:116-120, 147-149: the runner collects the list and the step adds
\* a non-empty result to the store
HarvestStore ==
    /\ hpc = "store"
    /\ LET all == CollectResult(<<>>, Returned(documents)).docs IN
        index' = IF all # <<>> THEN AddDocuments(index, all) ELSE index
    /\ hpc' = "done"
    /\ UNCHANGED <<scrapeVars, analysisVars, storeVars, crawlVars, hkind, pageTexts, documents>>

HarvestNext ==
    \/ HarvestPages
    \/ HarvestStore

HarvestSpec == HarvestInit /\ [][HarvestNext]_vars

\* C15: no document whose content is empty or white space only is ever in
\* the index store.
C15_NoBlankStored ==
    \A i \in 1..Len(index) : Strip(index[i].page_content) # ""

\* -------------------------------------------- step 6: the analysis context
Companies == {"A", "B"}

\* how the documents of a population get their metadata 'source': each its
\* own, the same ones in every store, or one source for all
Schemes == {"own", "shared", "one"}

SourceOf(scheme, s, j) ==
    CASE scheme = "own" -> <<s, j>>
      [] scheme = "shared" -> <<0, j>>
      [] OTHER -> <<0, 0>>

\* lengths of page_content around the cut
Lengths == {1, MAX_CHARS_PER_DOC, MAX_CHARS_PER_DOC + MaxOverLength}

\* a stored Document: its text is known by its length and by the document
\* it was harvested as
StoredDoc(c, src, len, id) ==
    [metadata |-> [company |-> c, source |-> src],
     page_content |-> [len |-> len, id |-> id]]

\* store s: a document of company B if other, then n documents of company A
StoreDocs(s, other, n, scheme, len) ==
    LET nB == IF other THEN 1 ELSE 0 IN
    [j \in 1..(nB + n) |->
        StoredDoc(IF j <= nB THEN "B" ELSE "A", SourceOf(scheme, s, j), len, <<s, j>>)]

PopulationParams ==
    [m : 0..MaxStores, n : 0..MaxStoreDocs, other : BOOLEAN, scheme : Schemes, len : Lengths]

\* utils.py:90-117 load_all_vector_stores: the stores whose index is on disk;
\* each holds p.n documents of company A, or none of them
Populations ==
    UNION {{[s \in 1..p.m |->
                StoreDocs(s, p.other, IF has[s] THEN p.n ELSE 0, p.scheme, p.len)] :
                has \in [1..p.m -> BOOLEAN]} : p \in PopulationParams}

Take(seq, n) == SubSeq(seq, 1, Min(n, Len(seq)))

\* a search that ignores the company filter
SimilaritySearchUnfiltered(store, query, k) == Take(store, k)

\* analysis_engine.py:44-48: store.similarity_search(company_name, k=10,
\* filter={"company": company_name}): at most k documents, all of them with
\* the metadata the filter asks for, the nearest first (the order of the store)
SimilaritySearch(store, query, k) ==
    LET Matches(d) == d.metadata.company = query
    IN Take(SelectSeq(store, Matches), k)

\* analysis_engine.py:38-50: the results of all stores, one after the other
RetrieveAll(stores, query) ==
    Concat([s \in 1..Len(stores) |-> SimilaritySearch(stores[s], query, SEARCH_K)])

\* a list that keeps every document
KeepAllDocs(docs) == docs

\* analysis_engine.py:53: list({doc.metadata['source']: doc for doc in
\* all_docs}.values()): one document per source, at the place of the first
\* document of that source, and it is the last document of that source
DedupBySource(docs) ==
    LET n == Len(docs)
        SameSource(i, j) == docs[i].metadata.source = docs[j].metadata.source
        firsts == SortedSeq({i \in 1..n : \A j \in 1..(i - 1) : ~SameSource(i, j)})
        LastOf(i) == CHOOSE j \in i..n :
                        SameSource(i, j) /\ \A k \in (j + 1)..n : ~SameSource(i, k)
    IN [x \in 1..Len(firsts) |-> docs[LastOf(firsts[x])]]

\* a slice that cuts nothing
SliceNothing(content, n) == content

\* analysis_engine.py:61: doc.page_content[:MAX_CHARS_PER_DOC]
Slice(content, n) == [content EXCEPT !.len = Min(@, n)]

\* analysis_engine.py:60-62: f"Source: {source}\nContent:\n{content}"
Block(doc) ==
    [source |-> doc.metadata.source,
     content |-> Slice(doc.page_content, MAX_CHARS_PER_DOC)]

\* a string is kept as the sequence of its pieces; "" has none
EmptyString == <<>>
Separator == [text |-> "---"]

\* str.join: the parts with the separator between them
RECURSIVE Join(_, _)
Join(sep, parts) ==
    IF parts = <<>> THEN EmptyString
    ELSE IF Len(parts) = 1 THEN <<parts[1]>>
    ELSE <<Head(parts), sep>> \o Join(sep, Tail(parts))

\* analysis_engine.py:52-64: the context string of the retrieved documents
CompileContext(docs) ==
    LET unique_docs == DedupBySource(docs)
    IN Join(Separator, [i \in 1..Len(unique_docs) |-> Block(unique_docs[i])])

AnalysisInit ==
    /\ ScrapeAtRest
    /\ HarvestAtRest
    /\ StoreAtRest
    /\ CrawlAtRest
    /\ vector_stores \in Populations
    /\ company_name \in Companies
    /\ all_docs = <<>>
    /\ context = EmptyString
    /\ llmCalls = 0
    /\ analysis_result = "none"
    /\ apc = "start"

\* main.py:242-249: without any store the step returns; else the engine is
\* built and analyze invokes the chain
AnalyzeBegin ==
    /\ apc = "start"
    /\ apc' = IF vector_stores = <<>> THEN "done" ELSE "retrieve"
    /\ UNCHANGED <<scrapeVars, harvestVars, storeVars, crawlVars, vector_stores, company_name, all_docs, context,
                   llmCalls, analysis_result>>

\* analysis_engine.py:35-50: every store is searched for the company
Retrieve ==
    /\ apc = "retrieve"
    /\ all_docs' = RetrieveAll(vector_stores, company_name)
    /\ apc' = "compile"
    /\ UNCHANGED <<scrapeVars, harvestVars, storeVars, crawlVars, vector_stores, company_name, context, llmCalls,
                   analysis_result>>

\* analysis_engine.py:52-64: the documents become the context string
Compile ==
    /\ apc = "compile"
    /\ context' = CompileContext(all_docs)
    /\ apc' = "llm"
    /\ UNCHANGED <<scrapeVars, harvestVars, storeVars, crawlVars, vector_stores, company_name, all_docs, llmCalls,
                   analysis_result>>

\* analysis_engine.py:143-148, 151-162: the prompt filled with the context
\* goes to the model; analyze returns the parsed answer or an error record
InvokeLLM ==
    /\ apc = "llm"
    /\ llmCalls' = llmCalls + 1
    /\ analysis_result' \in {"json", "error"}
    /\ apc' = "done"
    /\ UNCHANGED <<scrapeVars, harvestVars, storeVars, crawlVars, vector_stores, company_name, all_docs, context>>

AnalysisNext ==
    \/ AnalyzeBegin
    \/ Retrieve
    \/ Compile
    \/ InvokeLLM

AnalysisSpec == AnalysisInit /\ [][AnalysisNext]_vars

\* the context string has been built
Compiled == apc = "llm" \/ (apc = "done" /\ llmCalls > 0)

\* the blocks of a context string: its pieces between the separators
BlocksOf(ctx) == [i \in 1..((Len(ctx) + 1) \div 2) |-> ctx[2 * i - 1]]

\* the stored documents a block's text was taken from
OriginsOf(blk) ==
    {d \in UNION {Range(vector_stores[s]) : s \in 1..Len(vector_stores)} :
        d.page_content.id = blk.content.id}

\* C16: every block of the context compiled for a company is taken from a
\* stored document tagged with that company, never from a document tagged
\* with another company.
C16_OnlyOwnCompany ==
    Compiled =>
        \A i \in 1..Len(BlocksOf(context)) :
            LET blk == BlocksOf(context)[i] IN
            /\ OriginsOf(blk) # {}
            /\ \A d \in OriginsOf(blk) : d.metadata.company = company_name

\* a context with blocks, compiled from stores that also hold a document of
\* the other company
C16_Witness ==
    /\ Compiled
    /\ context # EmptyString
    /\ \E s \in 1..Len(vector_stores) : \E j \in 1..Len(vector_stores[s]) :
        vector_stores[s][j].metadata.company # company_name

\* C17: no two blocks of the compiled context have the same source.
C17_OneBlockPerSource ==
    Compiled =>
        \A i, j \in 1..Len(BlocksOf(context)) :
            BlocksOf(context)[i].source = BlocksOf(context)[j].source => i = j

\* two stores returned documents of one source, with different texts, and
\* one store returned two documents of one source
C17_Witness ==
    /\ Compiled
    /\ context # EmptyString
    /\ \E i, j \in 1..Len(all_docs) :
        /\ all_docs[i].metadata.source = all_docs[j].metadata.source
        /\ all_docs[i].page_content.id[1] # all_docs[j].page_content.id[1]
    /\ \E i, j \in 1..Len(all_docs) :
        /\ i # j
        /\ all_docs[i].metadata.source = all_docs[j].metadata.source
        /\ all_docs[i].page_content.id[1] = all_docs[j].page_content.id[1]

\* C18: when no store returned a document for the company, the context is
\* not the empty string and the language model is not called.
C18_ExplicitNoContext ==
    (Compiled /\ all_docs = <<>>) => (context # EmptyString /\ llmCalls = 0)

\* C19: every block of the compiled context holds at most MAX_CHARS_PER_DOC
\* characters of its document, and the context has at most k blocks for
\* each store.
C19_BoundedContext ==
    Compiled =>
        /\ \A i \in 1..Len(BlocksOf(context)) :
            BlocksOf(context)[i].content.len <= MAX_CHARS_PER_DOC
        /\ Len(BlocksOf(context)) <= Len(vector_stores) * SEARCH_K

\* every store held more than k documents of the company, each longer than
\* the cut and of its own source: the context has k blocks for each store
C19_Witness ==
    /\ Compiled
    /\ Len(vector_stores) = MaxStores
    /\ \A s \in 1..Len(vector_stores) :
        Len(SelectSeq(vector_stores[s],
                      LAMBDA d : /\ d.metadata.company = company_name
                                 /\ d.page_content.len > MAX_CHARS_PER_DOC)) > SEARCH_K
    /\ Len(BlocksOf(context)) = Len(vector_stores) * SEARCH_K

\* ------------------------------------------- index stores and their snapshots
\* main.py:142, 168: two of the index names the step functions pass to
\* utils.get_vector_store
IndexNames == {"linkedin", "news"}

Fragments == {"f1", "f2"}

\* what os.path.exists and FAISS.load_local can find under an index path:
\* no index.faiss, files load_local cannot read, or a saved store
Absent == [state |-> "absent", docs |-> <<>>]
Malformed == [state |-> "malformed", docs |-> <<>>]
Saved(ds) == [state |-> "saved", docs |-> ds]

\* a step saves a store only after it added at least one document
Snapshots ==
    {Absent, Malformed} \cup {Saved(ds) : ds \in SeqsUpTo(Fragments, MaxSnapshotDocs) \ {<<>>}}

LoadRaised == [ok |-> FALSE, docs |-> <<>>]
Loaded(ds) == [ok |-> TRUE, docs |-> ds]

\* FAISS.load_local: the documents of the snapshot, or an exception when the
\* files cannot be read
LoadLocal(snap) == IF snap.state = "saved" THEN Loaded(snap.docs) ELSE LoadRaised

\* a new store that keeps its "init" entry
FromTextsKeepInit == <<"init">>

\* utils.py:85-86: FAISS.from_texts(["init"], ...) and the delete of that entry
FromTextsEmptied == <<>>

\* utils.py:74-88 get_vector_store: load the snapshot if index.faiss exists
\* (the exception of load_local is not caught), else a new, empty store
get_vector_store(snap) ==
    IF snap.state # "absent" THEN LoadLocal(snap) ELSE Loaded(FromTextsEmptied)

\* FAISS.save_local: the snapshot is replaced by the store's documents
SaveLocal(ds) == Saved(ds)

\* utils.py:99-112 load_all_vector_stores: an index is loaded if index.faiss
\* exists and load_local does not raise; the others are left out of the dict
load_all_vector_stores(d) ==
    LET names == {n \in DOMAIN d : d[n].state # "absent" /\ LoadLocal(d[n]).ok}
    IN [n \in names |-> LoadLocal(d[n]).docs]

NoStores == <<>>

StoreInit ==
    /\ ScrapeAtRest
    /\ HarvestAtRest
    /\ AnalysisAtRest
    /\ CrawlAtRest
    /\ disk \in [IndexNames -> Snapshots]
    /\ index_name = "linkedin"
    /\ step_store = <<>>
    /\ step_documents = <<>>
    /\ before = disk
    /\ steps_run = {}
    /\ loaded_stores = NoStores
    /\ spc = "next_step"

\* main.py:142-143 and alike: a step function is entered and gets its store;
\* an exception of get_vector_store leaves the step function and main's try
StoreStepBegin ==
    /\ spc = "next_step"
    /\ \E n \in IndexNames \ steps_run :
        /\ index_name' = n
        /\ steps_run' = steps_run \cup {n}
        /\ LET got == get_vector_store(disk[n]) IN
            IF got.ok
            THEN /\ step_store' = got.docs
                 /\ spc' = "run"
            ELSE /\ step_store' = <<>>
                 /\ spc' = "crashed"
    /\ step_documents' = <<>>
    /\ UNCHANGED <<scrapeVars, harvestVars, analysisVars, crawlVars, disk, before, loaded_stores>>

\* main.py:145: all_documents = run_scraping_in_parallel(...)
StoreStepRun ==
    /\ spc = "run"
    /\ step_documents' \in SeqsUpTo(Fragments, MaxHarvested)
    /\ spc' = "store"
    /\ UNCHANGED <<scrapeVars, harvestVars, analysisVars, crawlVars, disk, index_name, step_store, before,
                   steps_run, loaded_stores>>

\* main.py:147-149: if all_documents: add_documents and save_local
StoreStepSave ==
    /\ spc = "store"
    /\ IF step_documents # <<>>
       THEN /\ step_store' = AddDocuments(step_store, step_documents)
            /\ disk' = [disk EXCEPT ![index_name] = SaveLocal(step_store')]
       ELSE UNCHANGED <<step_store, disk>>
    /\ spc' = "step_end"
    /\ UNCHANGED <<scrapeVars, harvestVars, analysisVars, crawlVars, index_name, step_documents, before,
                   steps_run, loaded_stores>>

\* main.py:150: the step function returns
StoreStepEnd ==
    /\ spc = "step_end"
    /\ spc' = "next_step"
    /\ UNCHANGED <<scrapeVars, harvestVars, analysisVars, crawlVars, disk, index_name, step_store,
                   step_documents, before, steps_run, loaded_stores>>

\* main.py:242: step 6 loads every store after the scraping steps
StoreLoadAll ==
    /\ spc = "next_step"
    /\ loaded_stores' = load_all_vector_stores(disk)
    /\ spc' = "analysis"
    /\ UNCHANGED <<scrapeVars, harvestVars, analysisVars, crawlVars, disk, index_name, step_store,
                   step_documents, before, steps_run>>

StoreNext ==
    \/ StoreStepBegin
    \/ StoreStepRun
    \/ StoreStepSave
    \/ StoreStepEnd
    \/ StoreLoadAll

StoreSpec == StoreInit /\ [][StoreNext]_vars

\* the step function being followed has got its store
StepHasStore == spc \in {"run", "store", "step_end"}

IsPrefix(a, b) == Len(a) <= Len(b) /\ SubSeq(b, 1, Len(a)) = a

\* C21: get_vector_store for an index without snapshot on disk does not
\* raise and returns a store of no fragments; the fragments the step then
\* adds are what the store holds and what is saved on disk.
C21_AbsentSnapshotLoadsEmpty ==
    /\ spc = "crashed" => before[index_name] # Absent
    /\ (StepHasStore /\ before[index_name] = Absent) =>
        /\ spc \in {"run", "store"} => step_store = <<>>
        /\ (spc = "step_end" /\ step_documents # <<>>) =>
            /\ step_store = step_documents
            /\ disk[index_name] = Saved(step_documents)

\* a step that found no snapshot has saved what it harvested
C21_Witness ==
    /\ spc = "step_end"
    /\ before[index_name] = Absent
    /\ step_documents # <<>>
    /\ disk[index_name].state = "saved"

\* C22: a snapshot that cannot be read is treated as an empty store and does
\* not end the run: the step function that meets it goes on with a store of
\* no fragments, and load_all_vector_stores leaves it out.
C22_MalformedTreatedAsEmpty ==
    /\ (spc # "next_step" /\ index_name \in steps_run
            /\ before[index_name] = Malformed) =>
        /\ spc # "crashed"
        /\ spc \in {"run", "store"} => step_store = <<>>
    /\ spc = "analysis" =>
        \A n \in IndexNames : disk[n] = Malformed => n \notin DOMAIN loaded_stores

\* C26: within a run the fragments saved for an index only grow: what the
\* snapshot held when the run started stays, unaltered and in place, a step
\* that harvested fragments saves the earlier ones followed by the harvested
\* ones, and a step leaves the snapshots of the other indexes alone.
C26_StoreOnlyGrows ==
    \A n \in IndexNames :
        /\ before[n].state = "saved" =>
            /\ disk[n].state = "saved"
            /\ IsPrefix(before[n].docs, disk[n].docs)
        /\ (spc = "step_end" /\ n = index_name /\ step_documents # <<>>) =>
            disk[n] = Saved(before[n].docs \o step_documents)
        /\ n \notin steps_run => disk[n] = before[n]

\* a step added fragments to a snapshot that already held some
C26_Witness ==
    /\ spc = "step_end"
    /\ before[index_name].state = "saved"
    /\ step_documents # <<>>
    /\ Len(disk[index_name].docs) > Len(before[index_name].docs)

\* --------------------------------- the pooled steps under fair scheduling
\* the runs of --scrape-linkedin and of --scrape-news
PoolInit == Init /\ args \in {{2}, {4}}

\* main.py:319-342 as far as these runs go
MainThreadStep ==
    \/ MainStart
    \/ CreateLaunch
    \/ CreateLogin
    \/ CreatePoolReturn
    \/ StepBegin
    \/ RunSubmit
    \/ Collect
    \/ RunReturn
    \/ StepStore
    \/ StepEnd
    \/ Finally
    \/ ShutdownQuit
    \/ ShutdownDone

\* main.py:65-74, 83-92: a thread of the executor
WorkerStep(w) ==
    \/ WTake(w)
    \/ WAcquire(w)
    \/ WNewsSleep(w)
    \/ WNewsSearch(w)
    \/ WFinish(w)

PoolNext ==
    \/ MainThreadStep
    \/ \E w \in WorkerIds : WorkerStep(w)
    \/ Tick

\* the main thread and every thread of the executor keep running while they
\* can take a step, and time passes
PoolFairness ==
    /\ WF_vars(MainThreadStep)
    /\ \A w \in 1..SELENIUM_MAX_WORKERS : WF_vars(WorkerStep(w))
    /\ WF_vars(Tick)

PoolSpec == PoolInit /\ [][PoolNext]_vars /\ PoolFairness

PoolThreads == 1..SELENIUM_MAX_WORKERS

\* a worker waits for a response that never comes
NeverResponds == \E w \in PoolThreads : wpc[w] = "waiting"

\* C24 (as claimed): every borrowed driver is eventually put back, and the
\* batch of a step whose pool holds a driver eventually completes, whatever
\* the remote endpoints do.
C24_BorrowedDriverReturns ==
    /\ \A w \in PoolThreads : (wdrv[w] # NoDriver) ~> (wdrv[w] = NoDriver)
    /\ (mpc = "collect" /\ created # {}) ~> (mpc = "store")

\* create_driver_pool returned a pool of at least one and fewer than
\* SELENIUM_MAX_WORKERS drivers
PartialPool ==
    /\ poolRef
    /\ created # {}
    /\ Cardinality(created) < SELENIUM_MAX_WORKERS

\* C29: with a pool of at least one but fewer than SELENIUM_MAX_WORKERS
\* drivers, a worker that waits in driver_pool.get() eventually holds a
\* driver, and the runner eventually returns with every work item run,
\* unless a harvester call never ends.
C29_PartialPoolNoDeadlock ==
    /\ \A w \in PoolThreads :
        (PartialPool /\ wpc[w] = "acquire") ~> (wdrv[w] # NoDriver \/ NeverResponds)
    /\ (PartialPool /\ mpc = "collect") ~> ((mpc = "store" /\ AllCollected) \/ NeverResponds)

\* two work items and one driver: a worker waits in get() while the other
\* worker holds the only driver
C29_Witness ==
    /\ PartialPool
    /\ Len(tasks) = 2
    /\ driver_pool = <<>>
    /\ \E w \in PoolThreads : wpc[w] = "acquire"
    /\ \E w \in PoolThreads : wdrv[w] # NoDriver

\* ------------------------------------------------- failures and work items
AllScrape == args = {2, 3, 4, 5, 7}

\* the call of the worker function for some work item ended with an exception
ItemFailed ==
    \E t \in 1..Len(futures) : futures[t].st \in {"done", "collected"} /\ ~futures[t].res.ok

\* C23 (as claimed): in an --all-scrape run a step in which an item failed
\* still completes: when its runner call is over, the step function goes on
\* to its end, from where main runs the later steps.
C23_ItemFailureContained ==
    [][(AllScrape /\ mpc = "store" /\ ItemFailed) => mpc' = "step_end"]_vars

\* a thread starts the worker function on work item t in this step
Invoked(t) == \E w \in WorkerIds : wpc[w] = "idle" /\ wpc'[w] # "idle" /\ wtask'[w] = t

\* C25: within one run of run_scraping_in_parallel the worker function is
\* started only on a work item that was not started before, a started item
\* never becomes pending again, and when the runner returns there is one
\* future per work item and each of them has been run.
C25_EachItemOnce ==
    [][/\ \A t \in 1..Len(futures) :
            /\ Invoked(t) => futures[t].st = "pending" /\ futures'[t].st = "running"
            /\ (mpc = "collect" /\ mpc' = "collect" /\ futures[t].st # "pending") =>
                futures'[t].st # "pending"
       /\ (mpc = "collect" /\ mpc' = "store") =>
            /\ Len(futures) = Len(tasks)
            /\ \A t \in 1..Len(tasks) : futures[t].st \in {"done", "collected"}]_vars

\* the runner of the LinkedIn step has returned after two work items were run
C25_Witness ==
    /\ mpc = "store"
    /\ CurStep = 2
    /\ Len(tasks) = 2
    /\ Len(futures) = 2
    /\ AllCollected

\* C30 (as claimed): when the run has ended, no browser session launched by
\* create_driver_pool is live, also when the run ended with an exception.
C30_PoolSessionsQuit ==
    mpc \in {"done", "crashed"} => live \cap PoolIds = {}

\* ------------------------------------------- WebsiteScraper.scrape_website
Url(n, p) == [netloc |-> n, path |-> p]

NoUrl == Url("", "")                      \* the roster has no website_url
SocialUrl == Url("linkedin.com", "/")
SiteUrl == Url("site.ae", "/")
BaseUrls == {NoUrl, SocialUrl, SiteUrl}

\* the absolute urls the links of the site's pages resolve to
LinkUrls ==
    {Url("site.ae", p) : p \in {"/", "/investors", "/about", "/report.pdf"}}
        \cup {Url("other.com", "/press")}

\* website_scraper.py:31-34
ExcludedDomains == {"linkedin.com"}

\* website_scraper.py:134: a string that starts with 'http'
StartsWithHttp(url) == url # NoUrl

\* website_scraper.py:162, 199: url.lower().endswith('.pdf')
EndsWithPdf(url) == url.path = "/report.pdf"

\* website_scraper.py:122: a high-value keyword is part of the href
KeywordInHref(url) == url.path \in {"/investors", "/report.pdf", "/press"}

\* an <a href> of a page: where it leads and whether its text holds a keyword
Anchor(u, k) == [href |-> u, keyword_in_text |-> k]
Anchors ==
    {Anchor(u, FALSE) : u \in LinkUrls} \cup {Anchor(Url("site.ae", "/about"), TRUE)}

\* a check that lets every absolute url pass
IsAnyUrl(url, base_domain) == TRUE

\* website_scraper.py:36-39 _is_valid_url
IsValidUrl(url, base_domain) == url.netloc # "" /\ url.netloc = base_domain

\* website_scraper.py:109-128 _find_links
FindLinks(anchors, base_domain, only_high_value) ==
    {a.href : a \in {b \in anchors :
                        /\ IsValidUrl(b.href, base_domain)
                        /\ only_high_value =>
                            \/ EndsWithPdf(b.href)
                            \/ b.keyword_in_text
                            \/ KeywordInHref(b.href)}}

\* requests.get with raise_for_status and the parse of the page: an exception,
\* or the links of the page and whether it has text left after cleaning
PageFailed == [ok |-> FALSE, anchors |-> {}, has_text |-> FALSE]
Responses ==
    {PageFailed} \cup [ok : {TRUE}, anchors : SUBSET Anchors, has_text : BOOLEAN]

SiteDoc(type, url) == [type |-> type, source |-> url]

\* website_scraper.py:75-106 _scrape_pdf: one document per page with text,
\* none when the download or the extraction failed
ScrapePdf(url) == {[i \in 1..n |-> SiteDoc("pdf_report_page", url)] : n \in 0..MaxPdfChunks}

NoFetches == [u \in LinkUrls \cup BaseUrls |-> 0]
Fetch(f, url) == [f EXCEPT ![url] = @ + 1]

CrawlInit ==
    /\ ScrapeAtRest
    /\ HarvestAtRest
    /\ AnalysisAtRest
    /\ StoreAtRest
    /\ base_url \in BaseUrls
    /\ visited_urls = {}
    /\ high_value_urls_to_visit = {}
    /\ general_urls_to_visit = {}
    /\ site_documents = <<>>
    /\ general_docs_found = 0
    /\ found_links = {}
    /\ fetches = NoFetches
    /\ cpc = "begin"

\* website_scraper.py:134-153: a missing url or a social media url returns
\* the empty list; else Stage 1 starts with the base url
CrawlBegin ==
    /\ cpc = "begin"
    /\ IF ~StartsWithHttp(base_url) \/ base_url.netloc \in ExcludedDomains
       THEN /\ cpc' = "returned"
            /\ UNCHANGED high_value_urls_to_visit
       ELSE /\ cpc' = "stage1"
            /\ high_value_urls_to_visit' = {base_url}
    /\ UNCHANGED <<scrapeVars, harvestVars, analysisVars, storeVars, base_url, visited_urls,
                   general_urls_to_visit, site_documents, general_docs_found, found_links,
                   fetches>>

\* website_scraper.py:155-182: one iteration of the Stage 1 loop
CrawlStage1 ==
    /\ cpc = "stage1"
    /\ Len(site_documents) < NO_OF_WEBSITE_PAGES_TO_SCRAPE * 5
    /\ \E url \in high_value_urls_to_visit :
        LET rest == high_value_urls_to_visit \ {url} IN
        IF url \in visited_urls
        THEN /\ high_value_urls_to_visit' = rest
             /\ UNCHANGED <<visited_urls, site_documents, found_links, fetches>>
        ELSE /\ visited_urls' = visited_urls \cup {url}
             /\ fetches' = Fetch(fetches, url)
             /\ IF EndsWithPdf(url)
                THEN /\ \E pdf_docs \in ScrapePdf(url) :
                            site_documents' = site_documents \o pdf_docs
                     /\ high_value_urls_to_visit' = rest
                     /\ UNCHANGED found_links
                ELSE \E response \in Responses :
                        LET new_links == FindLinks(response.anchors, base_url.netloc, TRUE) IN
                        /\ high_value_urls_to_visit' =
                                IF response.ok THEN rest \cup (new_links \ visited_urls')
                                ELSE rest
                        /\ site_documents' =
                                IF response.ok /\ response.has_text
                                THEN Append(site_documents,
                                            SiteDoc("website_high_value", url))
                                ELSE site_documents
                        /\ found_links' = found_links
                                \cup FindLinks(response.anchors, base_url.netloc, FALSE)
    /\ UNCHANGED <<scrapeVars, harvestVars, analysisVars, storeVars, base_url,
                   general_urls_to_visit, general_docs_found, cpc>>

\* website_scraper.py:155, 187-190: the Stage 1 loop is left; Stage 2 starts
\* from the base url if Stage 1 found fewer than five documents
CrawlStage1End ==
    /\ cpc = "stage1"
    /\ ~(Len(site_documents) < NO_OF_WEBSITE_PAGES_TO_SCRAPE * 5
            /\ high_value_urls_to_visit # {})
    /\ IF Len(site_documents) < STAGE2_BELOW
       THEN /\ general_urls_to_visit' = {base_url}
            /\ general_docs_found' = 0
            /\ cpc' = "stage2"
       ELSE /\ cpc' = "returned"
            /\ UNCHANGED <<general_urls_to_visit, general_docs_found>>
    /\ UNCHANGED <<scrapeVars, harvestVars, analysisVars, storeVars, base_url, visited_urls,
                   high_value_urls_to_visit, site_documents, found_links, fetches>>

\* website_scraper.py:192-218: one iteration of the Stage 2 loop
CrawlStage2 ==
    /\ cpc = "stage2"
    /\ general_docs_found < NO_OF_WEBSITE_PAGES_TO_SCRAPE
    /\ \E url \in general_urls_to_visit :
        LET rest == general_urls_to_visit \ {url} IN
        IF url \in visited_urls
        THEN /\ general_urls_to_visit' = rest
             /\ UNCHANGED <<visited_urls, site_documents, general_docs_found, found_links,
                            fetches>>
        ELSE /\ visited_urls' = visited_urls \cup {url}
             /\ IF EndsWithPdf(url)
                THEN /\ general_urls_to_visit' = rest
                     /\ UNCHANGED <<site_documents, general_docs_found, found_links, fetches>>
                ELSE /\ fetches' = Fetch(fetches, url)
                     /\ \E response \in Responses :
                        LET new_links == FindLinks(response.anchors, base_url.netloc, FALSE)
                            got_text == response.ok /\ response.has_text IN
                        /\ site_documents' =
                                IF got_text
                                THEN Append(site_documents, SiteDoc("website_general", url))
                                ELSE site_documents
                        /\ general_docs_found' =
                                IF got_text THEN general_docs_found + 1
                                ELSE general_docs_found
                        /\ general_urls_to_visit' =
                                IF response.ok THEN rest \cup (new_links \ visited_urls')
                                ELSE rest
                        /\ found_links' = found_links \cup new_links
    /\ UNCHANGED <<scrapeVars, harvestVars, analysisVars, storeVars, base_url,
                   high_value_urls_to_visit, cpc>>

\* website_scraper.py:192, 220-221: the Stage 2 loop is left and documents
\* is returned
CrawlReturn ==
    /\ cpc = "stage2"
    /\ ~(general_docs_found < NO_OF_WEBSITE_PAGES_TO_SCRAPE /\ general_urls_to_visit # {})
    /\ cpc' = "returned"
    /\ UNCHANGED <<scrapeVars, harvestVars, analysisVars, storeVars, base_url, visited_urls,
                   high_value_urls_to_visit, general_urls_to_visit, site_documents,
                   general_docs_found, found_links, fetches>>

CrawlNext ==
    \/ CrawlBegin
    \/ CrawlStage1
    \/ CrawlStage1End
    \/ CrawlStage2
    \/ CrawlReturn

CrawlSpec == CrawlInit /\ [][CrawlNext]_vars

\* the documents of Stage 1
Stage1Docs ==
    {i \in 1..Len(site_documents) :
        site_documents[i].type \in {"website_high_value", "pdf_report_page"}}

\* scrape_website has returned after it entered Stage 2
Stage2Ran ==
    /\ cpc = "returned"
    /\ visited_urls # {}
    /\ Cardinality(Stage1Docs) < STAGE2_BELOW

\* C27 (as claimed): when Stage 1 ended with fewer than five documents,
\* Stage 2 crawls the site from the base url: every same-domain page that a
\* fetched page links to has been fetched when scrape_website returns (the
\* site has fewer than NO_OF_WEBSITE_PAGES_TO_SCRAPE pages), and the pages
\* fetched in Stage 2 that have text are 'website_general' documents.
C27_Stage2GeneralCrawl ==
    Stage2Ran =>
        /\ \A u \in found_links : ~EndsWithPdf(u) => fetches[u] > 0
        /\ general_docs_found =
            Cardinality({i \in 1..Len(site_documents) :
                            site_documents[i].type = "website_general"})

\* C28: within one call of scrape_website no url is requested more than
\* once, in Stage 1 and Stage 2 together, and every url requested, the base
\* url apart, has the network location of the base url.
C28_NoRefetchSameDomain ==
    \A u \in DOMAIN fetches :
        /\ fetches[u] <= 1
        /\ (fetches[u] > 0 /\ u # base_url) => u.netloc = base_url.netloc

\* Stage 2 has run after Stage 1 fetched the base url, a linked page and a
\* PDF document, while a page of the site linked to another site
C28_Witness ==
    /\ Stage2Ran
    /\ fetches[base_url] = 1
    /\ \E u \in found_links : u # base_url /\ ~EndsWithPdf(u) /\ fetches[u] = 1
    /\ \E u \in found_links : EndsWithPdf(u) /\ fetches[u] = 1

====
